---- MODULE Spec2Model ----
(***************************************************************************)
(* Run orchestration of pahcer-studio: ExecutionService (start / stop /    *)
(* delete / executePacher / finalizeExecution), ProcessManager (spawn,     *)
(* close and error handlers, kill, tools/out backup and restore),          *)
(* ConfigService (backup / restore / updateConfigForTest) and              *)
(* ExecutionRepository (save / findById / updateStatus / delete).          *)
(*                                                                         *)
(* Every action is one continuation of the single-threaded event loop:     *)
(* the completion of the awaited file-system call together with the        *)
(* synchronous code that follows it up to the next await.                  *)
(***************************************************************************)
EXTENDS Integers, FiniteSets, Sequences, TLC

\* ---------------------------------------------------------------- bounds
MaxRuns == 2        \* start() calls explored; run ids are 1..MaxRuns
MaxSeed == 0        \* startSeed ranges over 0..MaxSeed
MaxCount == 1       \* testCaseCount ranges over 1..MaxCount
MaxOps == 3         \* start/stop/delete calls and injected I/O faults explored
MaxCaseSeed == 2    \* seeds of summary cases and best scores are 1..MaxCaseSeed
MaxCases == 2       \* summary.cases holds at most MaxCases entries
MaxScore == 2       \* case scores range over -1..MaxScore, best scores 0..MaxScore
MaxPasses == 2      \* recalculateAllRelativeScores calls explored
MaxLines == 3       \* output lines the child process writes
MaxArg == 4         \* arguments of calculateRelativeScore range over -1..MaxArg
MaxField == 2       \* values of the other config sections and fields: 1..MaxField
MaxCfgSeed == 1     \* seeds of a config file read on its own: 0..MaxCfgSeed

Runs == 1..MaxRuns
Requests == [startSeed : 0..MaxSeed, testCaseCount : 1..MaxCount]

\* ------------------------------------------------------- value domains
None == "none"
Terminal == {"COMPLETED", "FAILED", "CANCELLED"}
Statuses == {"IDLE", "RUNNING"} \cup Terminal

\* A directory is a set of file tags; NoDir is the absent directory.
\* Tag 0 is the content that predates every run, tag r is written by run r.
NoDir == {-1}
\* A missing file.
NoFile == [start_seed |-> -1, end_seed |-> -1]
\* pahcer_config.toml before any run of this session touched it.
PristineConfig == [start_seed |-> 0, end_seed |-> 100]

VARIABLES
  nextId,      \* number of start() calls accepted so far + 1 (uuidv4 stand-in)
  req,         \* req[r]: the TestExecutionRequest of run r
  pc,          \* pc[r]: position of startExecution/executePacher for run r
  stopPc,      \* stopPc[r]: position of a stopExecution(r) in flight
  delPc,       \* delPc[r]: position of a deleteExecution(r) in flight
  cfg,         \* pahcer_config.toml (its test.start_seed / test.end_seed)
  bak,         \* pahcer_config.toml.bak, or NoFile
  dir,         \* dir[r]: data/results/<r> exists
  info,        \* info[r]: status stored in execution_info.json, or None
  summary,     \* summary[r]: producer of results/<r>/summary.json, 0 if absent
  caseOut,     \* caseOut[r]: results/<r>/case_outputs has been written
  active,      \* ProcessManager.activeProcesses (its key set)
  proc,        \* proc[r]: state of the pahcer child process of run r
  result,      \* result[r]: what execute resolved with: "ok", "fail", or None
  out,         \* tools/out
  outBak,      \* tools/out_bak
  jsonLatest,  \* producer of the newest file in pahcer/json, 0 if none
  ev,          \* ev[r]: last 'execution:status' event emitted for run r
  stops,       \* stops[r]: number of stopExecution(r) calls made
  deletes,     \* number of delete() calls made
  faults,      \* number of injected faults
  hist,        \* hist[r]: observations about run r used by the properties
  phase,       \* phase[r]: the handler around r's chain: "try" and "catch" of
               \* executePacher, "last" for startExecution's .catch callback
  ioBroken,    \* writes under data/results fail (EACCES, ENOSPC, ...)
  subThrows,   \* the subscriber of the events throws on delivery
  bestScores,  \* best_scores.json as getBestScores returns it: seed -> {} or {best}
  objective,   \* problem.objective as getObjective returns it
  summaryData, \* the summary.json of one stored run
  storedAvg,   \* averageRelativeScore in that run's execution_info.json
  statsOut,    \* << >>, or <<what calculateExecutionStats returned>>
  casesOut,    \* << >>, or <<what enrichTestCasesWithRelativeScore returned>>
  passes,      \* recalculateAllRelativeScores calls completed
  updated,     \* the `updated` counter of the last completed call
  savedInto,   \* ids of the runs whose record a recalculation has saved
  argScore,    \* calculateRelativeScore: its score argument
  argBest,     \* calculateRelativeScore: its bestScore argument
  argObjective, \* calculateRelativeScore: its objective argument
  relOut,      \* << >>, or <<what calculateRelativeScore returned>>
  produced,    \* number of output lines the child process has written
  pipeOut,     \* lines written to the child's stdout and not yet read
  pipeErr,     \* lines written to the child's stderr and not yet read
  logEvents,   \* lines of the 'execution:log' events emitted for the output
  repoDir,     \* a run directory under data/results exists
  repoInfo,    \* state of its execution_info.json
  repoSummary, \* state of its summary.json
  repoCaseFile, \* case_outputs/<seed>.txt of the requested seed exists
  repoSeedListed, \* the requested seed is among summary.cases
  repoOut,     \* << >>, or <<[op, outcome]>> of the repository call made
  cfgFile,     \* pahcer_config.toml with its other sections and test fields
  cfgArg,      \* the arguments of updateConfigForTest
  cfgAfter,    \* << >>, or <<pahcer_config.toml after updateConfigForTest>>
  metaArg,     \* the TestExecution object at hand (argument of save)
  metaFile,    \* << >>, or <<the JSON object in execution_info.json>>
  metaSummary, \* << >>, or <<the object in summary.json>>
  metaWritten, \* << >>, or <<the object whose JSON text is in the file>>
  metaOut,     \* << >>, or <<what findById returned>> after the write
  recStatus,   \* the status in execution_info.json of the stored run
  recExe       \* << >>, or <<the record of it a recalculation holds>>

orchVars == <<nextId, req, pc, stopPc, delPc, cfg, bak, dir, info,
              summary, caseOut, active, proc, result, out, outBak, jsonLatest,
              ev, stops, deletes, faults, hist, phase, ioBroken, subThrows>>

scoreVars == <<bestScores, objective, summaryData, storedAvg,
               statsOut, casesOut, passes, updated, savedInto>>
relVars == <<argScore, argBest, argObjective, relOut>>
logVars == <<produced, pipeOut, pipeErr, logEvents>>
repoVars == <<repoDir, repoInfo, repoSummary, repoCaseFile, repoSeedListed,
              repoOut>>
cfgVars == <<cfgFile, cfgArg, cfgAfter>>
metaVars == <<metaArg, metaFile, metaSummary, metaWritten, metaOut>>
recVars == <<recStatus, recExe>>
auxVars == <<repoVars, cfgVars, metaVars, recVars>>
pureVars == <<scoreVars, relVars, logVars, auxVars>>

vars == <<orchVars, pureVars>>

fsRun == <<dir, info, summary, caseOut>>
fsCfg == <<cfg, bak>>
fsOut == <<out, outBak, jsonLatest>>
calls == <<stops, deletes>>
ids == <<nextId, req>>
env == <<ioBroken, subThrows>>

NoEvent == [status |-> None, record |-> None, reconciled |-> FALSE]

InitHist ==
  [cfgBefore |-> NoFile,     \* config content immediately before start(r)
   bakOk |-> FALSE,          \* backupConfig of run r succeeded
   bracket |-> "none",       \* config bracket of r: none / open / closed
   outBefore |-> NoDir,      \* tools/out immediately before execute(r)
   outBracket |-> "none",    \* tools/out bracket of r: none / open / closed
   executed |-> FALSE,       \* ProcessManager.executePacher(r) has resolved
   stopLive |-> FALSE,       \* a stop(r) found a tracked process
   deleted |-> FALSE,        \* a delete(r) has returned
   reconciled |-> FALSE,     \* recalculateAllRelativeScores of r finished
   raised |-> FALSE,         \* an exception was thrown in r's executePacher
   escaped |-> FALSE,        \* a promise of r's chain rejected with no handler
   emitFailed |-> FALSE,     \* an emit for r threw into the emitting code
   unreported |-> {},        \* statuses saved for r with no status event yet
   stopLog |-> << >>,        \* steps done by the stop(r) that found a process
   code |-> "none",          \* exit code the 'close' handler of r got: zero / other
   copyFailed |-> FALSE,     \* a copy of saveTestResults(r) threw
   mutFailed |-> FALSE]      \* the config rewrite of updateConfigForTest(r) failed

OrchInit ==
  /\ nextId = 1
  /\ req = [r \in Runs |-> [startSeed |-> 0, testCaseCount |-> 1]]
  /\ pc = [r \in Runs |-> "new"]
  /\ stopPc = [r \in Runs |-> "idle"]
  /\ delPc = [r \in Runs |-> "idle"]
  /\ cfg = PristineConfig
  /\ bak = NoFile
  /\ dir = [r \in Runs |-> FALSE]
  /\ info = [r \in Runs |-> None]
  /\ summary = [r \in Runs |-> 0]
  /\ caseOut = [r \in Runs |-> FALSE]
  /\ active = {}
  /\ proc = [r \in Runs |-> "none"]
  /\ result = [r \in Runs |-> None]
  /\ out \in {NoDir, {0}}
  /\ outBak = NoDir
  /\ jsonLatest = 0
  /\ ev = [r \in Runs |-> NoEvent]
  /\ stops = [r \in Runs |-> 0]
  /\ deletes = 0
  /\ faults = 0
  /\ hist = [r \in Runs |-> InitHist]
  /\ phase = [r \in Runs |-> "try"]
  /\ ioBroken = FALSE
  /\ subThrows = FALSE

\* A fraction n/d with d > 0: the model of a JavaScript number that a division
\* produced.
Frac(n, d) == [n |-> n, d |-> d]
Zero == Frac(0, 1)

CaseSeeds == 1..MaxCaseSeed
\* SummaryCaseRaw.score is `number | null`: {} is null, {v} the number v.
NullScore == {}
CaseScores == {NullScore} \cup {{v} : v \in -1..MaxScore}
Cases == [seed : CaseSeeds, score : CaseScores]
\* bestScores[seed] is undefined ({}) or a number.
BestEntries == {{}} \cup {{b} : b \in 0..MaxScore}
\* wa_seeds is modelled by its length (0 when the field is missing).
\* case_count is optional: {} when the field is missing.
CaseCounts == {{}} \cup {{c} : c \in 0..MaxCases}
CaseLists == UNION {[1..n -> Cases] : n \in 0..MaxCases}
Summaries == [case_count : CaseCounts, wa_seeds : 0..MaxCases, cases : CaseLists]
Objectives == {"Max", "Min"}

\* No score data: no best scores, an empty summary, nothing computed.
ScoreIdle ==
  /\ bestScores = [s \in CaseSeeds |-> {}]
  /\ objective = "Max"
  /\ summaryData = [case_count |-> {}, wa_seeds |-> 0, cases |-> << >>]
  /\ storedAvg = Zero
  /\ statsOut = << >>
  /\ casesOut = << >>
  /\ passes = 0
  /\ updated = 0
  /\ savedInto = {}

RelIdle ==
  /\ argScore = 0
  /\ argBest = 0
  /\ argObjective = "Max"
  /\ relOut = << >>

\* No child output.
LogIdle ==
  /\ produced = 0
  /\ pipeOut = << >>
  /\ pipeErr = << >>
  /\ logEvents = << >>

\* No run directory and no repository call.
RepoIdle ==
  /\ repoDir = FALSE
  /\ repoInfo = "missing"
  /\ repoSummary = "missing"
  /\ repoCaseFile = FALSE
  /\ repoSeedListed = FALSE
  /\ repoOut = << >>

\* A section or field of the config: {} when absent, {v} when it has value v.
Absent == {}
\* A config file: ok says whether readFile and parse succeed on it; general
\* stands for the sections other than test, threads for the fields of test
\* other than the seed range.
ConfigFile(ok, g, t, s, e) ==
  [ok |-> ok, general |-> g, threads |-> t, start_seed |-> s, end_seed |-> e]

\* No config call.
CfgIdle ==
  /\ cfgFile = ConfigFile(TRUE, Absent, Absent, Absent, Absent)
  /\ cfgArg = [startSeed |-> 0, testCaseCount |-> 1]
  /\ cfgAfter = << >>

\* Values of a JSON document or of a field of a JavaScript object.
Undefined == [type |-> "undefined"]
Null == [type |-> "null"]
Str(x) == [type |-> "string", str |-> x]
Num(f) == [type |-> "number", num |-> f]

\* The fields of TestExecution apart from id and startTime.
MetaKeys == {"status", "comment", "averageScore", "averageRelativeScore",
             "acceptedCount", "totalCount", "maxExecutionTime"}

\* No metadata file, no summary and no call.
MetaIdle ==
  /\ metaArg = [k \in MetaKeys |-> Undefined]
  /\ metaFile = << >>
  /\ metaSummary = << >>
  /\ metaWritten = << >>
  /\ metaOut = << >>

\* No recalculation in flight.
RecIdle ==
  /\ recStatus = "COMPLETED"
  /\ recExe = << >>

AuxIdle == RepoIdle /\ CfgIdle /\ MetaIdle /\ RecIdle

Init == OrchInit /\ ScoreIdle /\ RelIdle /\ LogIdle /\ AuxIdle

\* ------------------------------------------------------------ ConfigService

\* updateConfigForTest: {...currentConfig, test: {...test, start_seed, end_seed}}
TestWindow(rq) ==
  [start_seed |-> rq.startSeed, end_seed |-> rq.startSeed + rq.testCaseCount]

\* restoreConfig: fs.access(backupPath) then copyFile(backupPath, configPath);
\* a missing backup makes it return false and leave the config alone.
RestoreConfig(c, b) == IF b = NoFile THEN c ELSE b

\* ------------------------------------------------------ ExecutionRepository

\* findById: the stored status merged with summary.json; a summary without
\* valid metadata synthesizes a COMPLETED record; no directory gives null.
FindById(r) ==
  IF ~dir[r] THEN None
  ELSE IF info[r] # None THEN info[r]
  ELSE IF summary[r] # 0 THEN "COMPLETED"
  ELSE None

\* updateStatus without its `if (!execution)` test: the save always follows.
UpdateStatusUnchecked(r, save, skip) == save

\* updateStatus after its findById: a run that is not found is logged and
\* skipped, a run that is found has its status set and is saved.
UpdateStatus(r, save, skip) == IF FindById(r) = None THEN skip ELSE save

\* killProcess without its `if (process)` test: every id counts as killed.
KillProcessAlways(r) == TRUE

\* ProcessManager.killProcess: the lookup in activeProcesses decides whether
\* a kill is performed and reported.
KillProcess(r) == r \in active


RECURSIVE SumTo(_, _)
SumTo(f, n) == IF n = 0 THEN 0 ELSE f[n] + SumTo(f, n - 1)

\* Calls and faults accepted so far.
Ops == (nextId - 1) + SumTo(stops, MaxRuns) + deletes + faults

\* ExecutionService.emit('execution:status', {executionId, status, execution})
Emit(r, st, rec) ==
  [ev EXCEPT ![r] = [status |-> st, record |-> rec,
                     reconciled |-> hist[r].reconciled]]

\* The status finalizeExecution is called with: result.success decides.
FinalStatus(r) == IF result[r] = "ok" THEN "COMPLETED" ELSE "FAILED"

\* ------------------------------------------------- exceptions in the chain

\* Where control goes when an exception is thrown in run r's chain.
\*  - inside the try of executePacher: its catch block, which starts with an
\*    emitLog and then issues restoreConfig; when that emitLog throws too the
\*    promise of executePacher rejects;
\*  - inside the catch block: the promise of executePacher rejects and the
\*    .catch callback of startExecution calls updateExecutionStatus(FAILED);
\*  - inside that call: its promise is neither awaited nor handled.
Thrown(r) ==
  IF phase[r] = "try" /\ ~subThrows
    THEN [pc |-> "restoreCfg", phase |-> "catch", escaped |-> FALSE]
  ELSE IF phase[r] \in {"try", "catch"}
    THEN [pc |-> "fbFind", phase |-> "last", escaped |-> FALSE]
  ELSE [pc |-> "done", phase |-> "last", escaped |-> TRUE]

\* An exception is thrown in r's chain; h is hist[r] as the step leaves it.
RaiseWith(r, h) ==
  /\ pc' = [pc EXCEPT ![r] = Thrown(r).pc]
  /\ phase' = [phase EXCEPT ![r] = Thrown(r).phase]
  /\ result' = [result EXCEPT ![r] = "fail"]
  /\ hist' = [hist EXCEPT ![r] =
       [h EXCEPT !.raised = TRUE, !.escaped = @ \/ Thrown(r).escaped]]

Raise(r) == RaiseWith(r, hist[r])

\* An emit threw: the listener's exception comes out of EventEmitter.emit.
EmitThrows(r, h) == RaiseWith(r, [h EXCEPT !.emitFailed = TRUE])

\* processManager.executePacher resolved with res; executePacher of
\* ExecutionService continues with an emitLog and issues restoreConfig.
Resolved(r, res, h) ==
  IF subThrows
    THEN EmitThrows(r, h)
    ELSE /\ pc' = [pc EXCEPT ![r] = "restoreCfg"]
         /\ result' = [result EXCEPT ![r] = res]
         /\ hist' = [hist EXCEPT ![r] = h]
         /\ UNCHANGED phase

\* The results directory stops accepting writes.
StorageBreaks ==
  /\ ~ioBroken
  /\ Ops < MaxOps
  /\ \E r \in Runs : pc[r] \notin {"new", "done", "rejected"}
  /\ ioBroken' = TRUE
  /\ faults' = faults + 1
  /\ UNCHANGED <<ids, pc, stopPc, delPc, fsCfg, fsRun, active, proc, result,
                 fsOut, ev, calls, hist, phase, subThrows>>
  /\ UNCHANGED pureVars

\* The subscriber starts throwing (webContents of a destroyed window).
SubscriberBreaks ==
  /\ ~subThrows
  /\ Ops < MaxOps
  /\ \E r \in Runs : pc[r] \notin {"new", "done", "rejected"}
  /\ subThrows' = TRUE
  /\ faults' = faults + 1
  /\ UNCHANGED <<ids, pc, stopPc, delPc, fsCfg, fsRun, active, proc, result,
                 fsOut, ev, calls, hist, phase, ioBroken>>
  /\ UNCHANGED pureVars

\* ----------------------------------------------- ExecutionService.start

\* startExecution up to its first await (updateConfigForTest -> backupConfig).
\* Its first statement is an emitLog: with a throwing subscriber the call
\* rejects before it has done anything.
StartExecution(rq) ==
  /\ nextId <= MaxRuns
  /\ Ops < MaxOps
  /\ ~subThrows
  /\ nextId' = nextId + 1
  /\ req' = [req EXCEPT ![nextId] = rq]
  /\ pc' = [pc EXCEPT ![nextId] = "backup"]
  /\ hist' = [hist EXCEPT ![nextId].cfgBefore = cfg]
  /\ UNCHANGED <<stopPc, delPc, fsCfg, fsRun, active, proc,
                 result, fsOut, ev, calls, faults, phase, env>>
  /\ UNCHANGED pureVars

\* ConfigService.backupConfig: copyFile(configPath, backupPath); an error is
\* logged and swallowed, updateConfigForTest goes on.
BackupConfig(r) ==
  /\ pc[r] = "backup"
  /\ \E fail \in BOOLEAN :
       /\ fail => Ops < MaxOps
       /\ bak' = IF fail THEN bak ELSE cfg
       /\ faults' = IF fail THEN faults + 1 ELSE faults
       /\ hist' = [hist EXCEPT ![r].bakOk = ~fail, ![r].bracket = "open"]
  /\ pc' = [pc EXCEPT ![r] = "mutate"]
  /\ UNCHANGED <<ids, stopPc, delPc, cfg, fsRun, active,
                 proc, result, fsOut, ev, calls, phase, env>>
  /\ UNCHANGED pureVars

\* startExecution giving up when updateConfigForTest returned false.
AfterConfigUpdateFatal(configUpdated) ==
  IF configUpdated THEN "saveIdle" ELSE "rejected"

\* startExecution after updateConfigForTest returned configUpdated: false
\* is logged as a warning and the run continues as for true.
AfterConfigUpdate(configUpdated) == "saveIdle"

\* ConfigService.updateConfigForTest after the backup: getConfig, then
\* writeFile of the config with the seed window of the request; a failing
\* write is caught and makes it return false.  Back in startExecution an
\* emitLog follows, outside every try: when it throws, startExecution
\* rejects.
UpdateConfigForTest(r) ==
  /\ pc[r] = "mutate"
  /\ \E fail \in BOOLEAN :
       /\ fail => Ops < MaxOps
       /\ cfg' = IF fail THEN cfg ELSE TestWindow(req[r])
       /\ faults' = IF fail THEN faults + 1 ELSE faults
       /\ pc' = [pc EXCEPT ![r] =
            IF subThrows THEN "rejected" ELSE AfterConfigUpdate(~fail)]
       /\ hist' = [hist EXCEPT ![r].emitFailed = @ \/ subThrows,
                               ![r].mutFailed = fail]
  /\ UNCHANGED <<ids, stopPc, delPc, bak, fsRun, active,
                 proc, result, fsOut, ev, calls, phase, env>>
  /\ UNCHANGED pureVars

\* executionRepository.save(initialExecution), outside every try: a failing
\* write makes startExecution reject.  Otherwise startExecution calls
\* executePacher, which runs to the findById inside updateStatus, and returns.
SaveInitial(r) ==
  /\ pc[r] = "saveIdle"
  /\ IF ioBroken
       THEN /\ pc' = [pc EXCEPT ![r] = "rejected"]
            /\ UNCHANGED <<dir, info>>
       ELSE /\ dir' = [dir EXCEPT ![r] = TRUE]
            /\ info' = [info EXCEPT ![r] = "IDLE"]
            /\ pc' = [pc EXCEPT ![r] = "runFind"]
  /\ UNCHANGED <<ids, stopPc, delPc, fsCfg, summary, caseOut, active, proc,
                 result, fsOut, ev, calls, faults, hist, phase, env>>
  /\ UNCHANGED pureVars

\* --------------------------- ExecutionService.updateExecutionStatus(RUNNING)

\* updateStatus: findById; a missing run is logged and skipped.
RunningFind(r) ==
  /\ pc[r] = "runFind"
  /\ pc' = [pc EXCEPT ![r] = UpdateStatus(r, "runSave", "runEmit")]
  /\ UNCHANGED <<ids, stopPc, delPc, fsCfg, fsRun, active,
                 proc, result, fsOut, ev, calls, faults, hist, phase, env>>
  /\ UNCHANGED pureVars

\* updateStatus: execution.status = status; save(execution).
RunningSave(r) ==
  /\ pc[r] = "runSave"
  /\ IF ioBroken
       THEN /\ Raise(r)
            /\ UNCHANGED <<dir, info>>
       ELSE /\ dir' = [dir EXCEPT ![r] = TRUE]
            /\ info' = [info EXCEPT ![r] = "RUNNING"]
            /\ pc' = [pc EXCEPT ![r] = "runEmit"]
            /\ hist' = [hist EXCEPT ![r].unreported = @ \cup {"RUNNING"}]
            /\ UNCHANGED <<result, phase>>
  /\ UNCHANGED <<ids, stopPc, delPc, fsCfg, summary, caseOut, active, proc,
                 fsOut, ev, calls, faults, env>>
  /\ UNCHANGED pureVars

\* updateExecutionStatus: findById again, emit if found; then an emitLog, and
\* executePacher calls processManager.executePacher, which runs to its
\* fs.mkdir.
RunningEmit(r) ==
  /\ pc[r] = "runEmit"
  /\ LET found == FindById(r) # None
         h == [hist[r] EXCEPT
                 !.unreported = IF found THEN @ \ {"RUNNING"} ELSE @]
     IN /\ ev' = IF found THEN Emit(r, "RUNNING", FindById(r)) ELSE ev
        /\ IF subThrows
             THEN EmitThrows(r, h)
             ELSE /\ pc' = [pc EXCEPT ![r] = "pmMkdir"]
                  /\ hist' = [hist EXCEPT ![r] = [h EXCEPT !.outBefore = out]]
                  /\ UNCHANGED <<result, phase>>
  /\ UNCHANGED <<ids, stopPc, delPc, fsCfg, fsRun, active,
                 proc, fsOut, calls, faults, env>>
  /\ UNCHANGED pureVars

\* --------------------------------------------- ProcessManager.executePacher

\* fs.mkdir(executionDir, {recursive: true}); a failure is caught inside
\* executePacher, which then resolves with a failure without spawning.
ExecMkdir(r) ==
  /\ pc[r] = "pmMkdir"
  /\ IF ioBroken
       THEN /\ Resolved(r, "fail", [hist[r] EXCEPT !.executed = TRUE])
            /\ UNCHANGED dir
       ELSE /\ dir' = [dir EXCEPT ![r] = TRUE]
            /\ pc' = [pc EXCEPT ![r] = "pmInfo"]
            /\ UNCHANGED <<result, hist, phase>>
  /\ UNCHANGED <<ids, stopPc, delPc, fsCfg, info, summary, caseOut,
                 active, proc, fsOut, ev, calls, faults, env>>
  /\ UNCHANGED pureVars

\* fs.writeFile(execution_info.json, {status: 'RUNNING', ...}); when the
\* directory is gone or the write fails, execute resolves with a failure
\* without spawning.
ExecWriteInfo(r) ==
  /\ pc[r] = "pmInfo"
  /\ IF dir[r] /\ ~ioBroken
       THEN /\ info' = [info EXCEPT ![r] = "RUNNING"]
            /\ pc' = [pc EXCEPT ![r] = "backupOut"]
            /\ UNCHANGED <<result, hist, phase>>
       ELSE /\ Resolved(r, "fail", [hist[r] EXCEPT !.executed = TRUE])
            /\ UNCHANGED info
  /\ UNCHANGED <<ids, stopPc, delPc, fsCfg, dir, summary, caseOut,
                 active, proc, fsOut, ev, calls, faults, env>>
  /\ UNCHANGED pureVars

\* backupOutDirectory: when tools/out exists, remove tools/out_bak and rename
\* tools/out to tools/out_bak; an absent tools/out is skipped.
BackupOutDirectory(o, b) ==
  IF o = NoDir THEN [out |-> o, outBak |-> b] ELSE [out |-> NoDir, outBak |-> o]

\* backupOutDirectory completes and the promise body runs: spawn, and
\* activeProcesses.set(executionId, child).  "throw" is spawn throwing
\* synchronously, "error" a child that emits 'error' instead of starting.
BackupOutAndSpawn(r) ==
  /\ pc[r] = "backupOut"
  /\ out' = BackupOutDirectory(out, outBak).out
  /\ outBak' = BackupOutDirectory(out, outBak).outBak
  /\ \E i \in 1..3 : LET how == <<"ok", "throw", "error">>[i] IN
       /\ how = "ok" \/ Ops < MaxOps
       /\ faults' = IF how = "ok" THEN faults ELSE faults + 1
       /\ IF how = "throw"
            THEN /\ Resolved(r, "fail", [hist[r] EXCEPT !.outBracket = "open",
                                                         !.executed = TRUE])
                 /\ UNCHANGED <<active, proc>>
            ELSE /\ active' = active \cup {r}
                 /\ proc' = [proc EXCEPT ![r] =
                      IF how = "ok" THEN "running" ELSE "spawnError"]
                 /\ hist' = [hist EXCEPT ![r].outBracket = "open"]
                 /\ pc' = [pc EXCEPT ![r] = "spawned"]
                 /\ UNCHANGED <<result, phase>>
  /\ UNCHANGED <<ids, stopPc, delPc, fsCfg, fsRun,
                 jsonLatest, ev, calls, env>>
  /\ UNCHANGED pureVars

\* The pahcer child process writes its per-case output into tools/out.
ProcWrite(r) ==
  /\ proc[r] = "running"
  /\ out' = IF out = NoDir THEN {r} ELSE out \cup {r}
  /\ proc' = [proc EXCEPT ![r] = "wrote"]
  /\ UNCHANGED <<ids, pc, stopPc, delPc, fsCfg, fsRun, active, result,
                 outBak, jsonLatest, ev, calls, faults, hist, phase, env>>
  /\ UNCHANGED pureVars

\* The child exits by itself: with code 0 after writing its summary into
\* pahcer/json, or with a non-zero code.
ProcExit(r) ==
  /\ \/ /\ proc[r] = "wrote"
        /\ proc' = [proc EXCEPT ![r] = "exit0"]
        /\ jsonLatest' = r
     \/ /\ proc[r] \in {"running", "wrote"}
        /\ proc' = [proc EXCEPT ![r] = "exitN"]
        /\ UNCHANGED jsonLatest
  /\ UNCHANGED <<ids, pc, stopPc, delPc, fsCfg, fsRun, active, result,
                 out, outBak, ev, calls, faults, hist, phase, env>>
  /\ UNCHANGED pureVars

\* The close handler with `success` always true.
SuccessAlways(p) == TRUE

\* const success = code === 0: the code is 0 for a child that exited with 0,
\* non-zero or null (killed by a signal) otherwise.
Success(p) == p = "exit0"

\* child.on('close'): activeProcesses.delete, success = (code === 0); on
\* success saveTestResults is entered, otherwise restoreOutDirectory.
CloseHandler(r) ==
  /\ pc[r] = "spawned"
  /\ proc[r] \in {"exit0", "exitN", "killed"}
  /\ active' = active \ {r}
  /\ result' = [result EXCEPT ![r] = IF Success(proc[r]) THEN "ok" ELSE "fail"]
  /\ proc' = [proc EXCEPT ![r] = "closed"]
  /\ pc' = [pc EXCEPT ![r] = IF Success(proc[r]) THEN "saveSummary"
                             ELSE "restoreOut"]
  /\ hist' = [hist EXCEPT ![r].code =
       IF proc[r] = "exit0" THEN "zero" ELSE "other"]
  /\ UNCHANGED <<ids, stopPc, delPc, fsCfg, fsRun, fsOut,
                 ev, calls, faults, phase, env>>
  /\ UNCHANGED pureVars

\* child.on('error'): activeProcesses.delete, then restoreOutDirectory.
ErrorHandler(r) ==
  /\ pc[r] = "spawned"
  /\ proc[r] = "spawnError"
  /\ active' = active \ {r}
  /\ result' = [result EXCEPT ![r] = "fail"]
  /\ proc' = [proc EXCEPT ![r] = "closed"]
  /\ pc' = [pc EXCEPT ![r] = "restoreOut"]
  /\ UNCHANGED <<ids, stopPc, delPc, fsCfg, fsRun, fsOut,
                 ev, calls, faults, hist, phase, env>>
  /\ UNCHANGED pureVars

\* saveTestResults, part 1: copy the newest pahcer/json file to summary.json;
\* a failing copy (no json file, no run directory, no write access) is logged
\* and skipped.
SaveSummary(r) ==
  /\ pc[r] = "saveSummary"
  /\ summary' = IF jsonLatest # 0 /\ dir[r] /\ ~ioBroken
                  THEN [summary EXCEPT ![r] = jsonLatest] ELSE summary
  /\ pc' = [pc EXCEPT ![r] = "saveCases"]
  /\ hist' = [hist EXCEPT ![r].copyFailed =
       @ \/ (jsonLatest # 0 /\ (~dir[r] \/ ioBroken))]
  /\ UNCHANGED <<ids, stopPc, delPc, fsCfg, dir, info, caseOut, active, proc,
                 result, fsOut, ev, calls, faults, phase, env>>
  /\ UNCHANGED pureVars

\* saveTestResults, part 2: mkdir(case_outputs, {recursive: true}) and copy
\* the *.txt files of tools/out; a failure is caught by the close handler.
SaveCaseOutputs(r) ==
  /\ pc[r] = "saveCases"
  /\ dir' = IF ioBroken THEN dir ELSE [dir EXCEPT ![r] = TRUE]
  /\ caseOut' = IF ioBroken THEN caseOut ELSE [caseOut EXCEPT ![r] = TRUE]
  /\ pc' = [pc EXCEPT ![r] = "restoreOut"]
  /\ hist' = [hist EXCEPT ![r].copyFailed = @ \/ ioBroken]
  /\ UNCHANGED <<ids, stopPc, delPc, fsCfg, info, summary, active, proc,
                 result, fsOut, ev, calls, faults, phase, env>>
  /\ UNCHANGED pureVars

\* restoreOutDirectory: when tools/out_bak exists, remove tools/out and rename
\* tools/out_bak to tools/out; an absent tools/out_bak is skipped.
RestoreOutDirectory(o, b) ==
  IF b = NoDir THEN [out |-> o, outBak |-> b] ELSE [out |-> b, outBak |-> NoDir]

\* restoreOutDirectory completes and execute resolves.
RestoreOut(r) ==
  /\ pc[r] = "restoreOut"
  /\ out' = RestoreOutDirectory(out, outBak).out
  /\ outBak' = RestoreOutDirectory(out, outBak).outBak
  /\ Resolved(r, result[r],
              [hist[r] EXCEPT !.outBracket = IF @ = "open" THEN "closed" ELSE @,
                              !.executed = TRUE])
  /\ UNCHANGED <<ids, stopPc, delPc, fsCfg, fsRun, active,
                 proc, jsonLatest, ev, calls, faults, env>>
  /\ UNCHANGED pureVars

\* --------------------------------- ExecutionService.executePacher, the tail

\* configService.restoreConfig() completes: the one after execute resolved
\* (phase "try") or the one of the catch block (phase "catch").  emitLog
\* calls follow, then finalizeExecution is entered and issues its findById.
RestoreConfigAfterRun(r) ==
  /\ pc[r] = "restoreCfg"
  /\ cfg' = RestoreConfig(cfg, bak)
  /\ LET h == [hist[r] EXCEPT !.bracket = "closed"]
     IN IF subThrows
          THEN EmitThrows(r, h)
          ELSE /\ pc' = [pc EXCEPT ![r] = "finFind"]
               /\ hist' = [hist EXCEPT ![r] = h]
               /\ UNCHANGED <<result, phase>>
  /\ UNCHANGED <<ids, stopPc, delPc, bak, fsRun, active,
                 proc, fsOut, ev, calls, faults, env>>
  /\ UNCHANGED pureVars

\* finalizeExecution: finalExecution = findById(id); null takes the fallback
\* (updateExecutionStatus), whose updateStatus issues findById again.
FinalizeFind(r) ==
  /\ pc[r] = "finFind"
  /\ pc' = [pc EXCEPT ![r] = IF FindById(r) = None THEN "fbFind" ELSE "finSave"]
  /\ UNCHANGED <<ids, stopPc, delPc, fsCfg, fsRun, active,
                 proc, result, fsOut, ev, calls, faults, hist, phase, env>>
  /\ UNCHANGED pureVars

\* finalizeExecution: finalExecution.status = status; save.  A status other
\* than COMPLETED is notified at once; COMPLETED goes on, after an emitLog,
\* to the recalculation.
FinalizeSave(r) ==
  /\ pc[r] = "finSave"
  /\ IF ioBroken
       THEN /\ Raise(r)
            /\ UNCHANGED <<dir, info, ev>>
       ELSE /\ dir' = [dir EXCEPT ![r] = TRUE]
            /\ info' = [info EXCEPT ![r] = FinalStatus(r)]
            /\ IF FinalStatus(r) = "COMPLETED"
                 THEN LET h == [hist[r] EXCEPT
                                  !.unreported = @ \cup {"COMPLETED"}]
                      IN /\ UNCHANGED ev
                         /\ IF subThrows
                              THEN EmitThrows(r, h)
                              ELSE /\ pc' = [pc EXCEPT ![r] = "recalc"]
                                   /\ hist' = [hist EXCEPT ![r] = h]
                                   /\ UNCHANGED <<result, phase>>
                 ELSE LET h == [hist[r] EXCEPT
                                  !.unreported = @ \ {FinalStatus(r)}]
                      IN /\ ev' = Emit(r, FinalStatus(r), FinalStatus(r))
                         /\ IF subThrows
                              THEN EmitThrows(r, h)
                              ELSE /\ pc' = [pc EXCEPT ![r] = "done"]
                                   /\ hist' = [hist EXCEPT ![r] = h]
                                   /\ UNCHANGED <<result, phase>>
  /\ UNCHANGED <<ids, stopPc, delPc, fsCfg, summary, caseOut,
                 active, proc, fsOut, calls, faults, env>>
  /\ UNCHANGED pureVars

\* scoreAnalysisService.recalculateAllRelativeScores(repository) has finished
\* (or thrown, which is logged); an emitLog follows in either case and
\* finalizeExecution issues findById again.
Recalculate(r) ==
  /\ pc[r] = "recalc"
  /\ LET h == [hist[r] EXCEPT !.reconciled = TRUE]
     IN IF subThrows
          THEN EmitThrows(r, h)
          ELSE /\ pc' = [pc EXCEPT ![r] = "finEmit"]
               /\ hist' = [hist EXCEPT ![r] = h]
               /\ UNCHANGED <<result, phase>>
  /\ UNCHANGED <<ids, stopPc, delPc, fsCfg, fsRun, active,
                 proc, fsOut, ev, calls, faults, env>>
  /\ UNCHANGED pureVars

\* finalizeExecution: updatedExecution = findById(id); when found its status
\* is set in memory and the status event is emitted.
FinalizeEmit(r) ==
  /\ pc[r] = "finEmit"
  /\ IF FindById(r) = None
       THEN /\ pc' = [pc EXCEPT ![r] = "done"]
            /\ UNCHANGED <<ev, hist, result, phase>>
       ELSE LET h == [hist[r] EXCEPT !.unreported = @ \ {"COMPLETED"}]
            IN /\ ev' = Emit(r, "COMPLETED", "COMPLETED")
               /\ IF subThrows
                    THEN EmitThrows(r, h)
                    ELSE /\ pc' = [pc EXCEPT ![r] = "done"]
                         /\ hist' = [hist EXCEPT ![r] = h]
                         /\ UNCHANGED <<result, phase>>
  /\ UNCHANGED <<ids, stopPc, delPc, fsCfg, fsRun, active,
                 proc, fsOut, calls, faults, env>>
  /\ UNCHANGED pureVars

\* updateExecutionStatus(id, status) as the fallback of finalizeExecution and
\* as the body of startExecution's .catch callback; updateStatus: findById;
\* missing is skipped.
FallbackFind(r) ==
  /\ pc[r] = "fbFind"
  /\ pc' = [pc EXCEPT ![r] = UpdateStatus(r, "fbSave", "fbEmit")]
  /\ UNCHANGED <<ids, stopPc, delPc, fsCfg, fsRun, active,
                 proc, result, fsOut, ev, calls, faults, hist, phase, env>>
  /\ UNCHANGED pureVars

\* updateStatus: execution.status = status; save(execution).
FallbackSave(r) ==
  /\ pc[r] = "fbSave"
  /\ IF ioBroken
       THEN /\ Raise(r)
            /\ UNCHANGED <<dir, info>>
       ELSE /\ dir' = [dir EXCEPT ![r] = TRUE]
            /\ info' = [info EXCEPT ![r] = FinalStatus(r)]
            /\ pc' = [pc EXCEPT ![r] = "fbEmit"]
            /\ hist' = [hist EXCEPT ![r].unreported = @ \cup {FinalStatus(r)}]
            /\ UNCHANGED <<result, phase>>
  /\ UNCHANGED <<ids, stopPc, delPc, fsCfg, summary, caseOut, active, proc,
                 fsOut, ev, calls, faults, env>>
  /\ UNCHANGED pureVars

\* updateExecutionStatus: findById again and emit if found.
FallbackEmit(r) ==
  /\ pc[r] = "fbEmit"
  /\ IF FindById(r) = None
       THEN /\ pc' = [pc EXCEPT ![r] = "done"]
            /\ UNCHANGED <<ev, hist, result, phase>>
       ELSE LET h == [hist[r] EXCEPT !.unreported = @ \ {FinalStatus(r)}]
            IN /\ ev' = Emit(r, FinalStatus(r), FindById(r))
               /\ IF subThrows
                    THEN EmitThrows(r, h)
                    ELSE /\ pc' = [pc EXCEPT ![r] = "done"]
                         /\ hist' = [hist EXCEPT ![r] = h]
                         /\ UNCHANGED <<result, phase>>
  /\ UNCHANGED <<ids, stopPc, delPc, fsCfg, fsRun, active,
                 proc, fsOut, calls, faults, env>>
  /\ UNCHANGED pureVars

\* ------------------------------------------- ExecutionService.stopExecution

\* Callers hold the id of run r: startExecution has returned it.
Known(r) == pc[r] \notin {"new", "backup", "mutate", "saveIdle", "rejected"}

\* process.kill('SIGKILL') left out: the child is not signalled.
KilledNoSignal(p) == p

\* process.kill('SIGKILL') on the tracked child: a child still running dies,
\* one that has already exited (its 'close' not yet delivered) is unaffected.
Killed(p) == IF p \in {"running", "wrote"} THEN "killed" ELSE p

\* stopExecution(id) up to its first await: killProcess, and when it reports
\* a kill, an emitLog and restoreConfig is issued; otherwise the call
\* returns.  When the emitLog throws, stopExecution rejects after the kill.
StopExecution(r) ==
  /\ Known(r)
  /\ Ops < MaxOps
  /\ stops' = [stops EXCEPT ![r] = @ + 1]
  /\ IF KillProcess(r)
       THEN /\ proc' = [proc EXCEPT ![r] = Killed(@)]
            /\ active' = active \ {r}
            /\ stopPc' = [stopPc EXCEPT ![r] =
                 IF subThrows THEN "idle" ELSE "restore"]
            /\ hist' = [hist EXCEPT ![r].stopLive = TRUE,
                                    ![r].emitFailed = @ \/ subThrows,
                                    ![r].stopLog = <<"kill">>]
       ELSE UNCHANGED <<proc, active, stopPc, hist>>
  /\ UNCHANGED <<ids, pc, delPc, fsCfg, fsRun, result,
                 fsOut, ev, deletes, faults, phase, env>>
  /\ UNCHANGED pureVars

\* stopExecution: restoreConfig completes; after an emitLog,
\* updateExecutionStatus(CANCELLED) issues the findById of updateStatus.
StopRestoreConfig(r) ==
  /\ stopPc[r] = "restore"
  /\ cfg' = RestoreConfig(cfg, bak)
  /\ hist' = [hist EXCEPT ![r].bracket = "closed",
                          ![r].emitFailed = @ \/ subThrows,
                          ![r].stopLog = Append(@, "restore")]
  /\ stopPc' = [stopPc EXCEPT ![r] = IF subThrows THEN "idle" ELSE "find"]
  /\ UNCHANGED <<ids, pc, delPc, bak, fsRun, active, proc,
                 result, fsOut, ev, calls, faults, phase, env>>
  /\ UNCHANGED pureVars

\* updateStatus: findById; a missing run is logged and skipped.
StopFind(r) ==
  /\ stopPc[r] = "find"
  /\ stopPc' = [stopPc EXCEPT ![r] = UpdateStatus(r, "save", "emit")]
  /\ UNCHANGED <<ids, pc, delPc, fsCfg, fsRun, active, proc,
                 result, fsOut, ev, calls, faults, hist, phase, env>>
  /\ UNCHANGED pureVars

\* updateStatus: execution.status = 'CANCELLED'; save(execution); a failing
\* write makes stopExecution reject.
StopSave(r) ==
  /\ stopPc[r] = "save"
  /\ IF ioBroken
       THEN /\ stopPc' = [stopPc EXCEPT ![r] = "idle"]
            /\ UNCHANGED <<dir, info, hist>>
       ELSE /\ dir' = [dir EXCEPT ![r] = TRUE]
            /\ info' = [info EXCEPT ![r] = "CANCELLED"]
            /\ stopPc' = [stopPc EXCEPT ![r] = "emit"]
            /\ hist' = [hist EXCEPT ![r].unreported = @ \cup {"CANCELLED"},
                                    ![r].stopLog = Append(@, "save")]
  /\ UNCHANGED <<ids, pc, delPc, fsCfg, summary, caseOut, active, proc,
                 result, fsOut, ev, calls, faults, phase, env>>
  /\ UNCHANGED pureVars

\* updateExecutionStatus: findById again and emit if found; stopExecution
\* returns.
StopEmit(r) ==
  /\ stopPc[r] = "emit"
  /\ IF FindById(r) = None
       THEN UNCHANGED <<ev, hist>>
       ELSE /\ ev' = Emit(r, "CANCELLED", FindById(r))
            /\ hist' = [hist EXCEPT ![r].unreported = @ \ {"CANCELLED"},
                                    ![r].emitFailed = @ \/ subThrows,
                                    ![r].stopLog = Append(@, "emit")]
  /\ stopPc' = [stopPc EXCEPT ![r] = "idle"]
  /\ UNCHANGED <<ids, pc, delPc, fsCfg, fsRun, active,
                 proc, result, fsOut, calls, faults, phase, env>>
  /\ UNCHANGED pureVars

\* ----------------------------------------- ExecutionService.deleteExecution

\* deleteExecution(id) up to its await: killProcess (result ignored), then
\* executionRepository.delete is issued.
DeleteExecution(r) ==
  /\ Known(r)
  /\ Ops < MaxOps
  /\ delPc[r] = "idle"
  /\ deletes' = deletes + 1
  /\ IF KillProcess(r)
       THEN /\ proc' = [proc EXCEPT ![r] = Killed(@)]
            /\ active' = active \ {r}
       ELSE UNCHANGED <<proc, active>>
  /\ delPc' = [delPc EXCEPT ![r] = "rm"]
  /\ UNCHANGED <<ids, pc, stopPc, fsCfg, fsRun, result,
                 fsOut, ev, stops, faults, hist, phase, env>>
  /\ UNCHANGED pureVars

\* ExecutionRepository.delete: fs.rm(executionDir, {recursive, force});
\* deleteExecution returns.
DeleteDirectory(r) ==
  /\ delPc[r] = "rm"
  /\ dir' = [dir EXCEPT ![r] = FALSE]
  /\ info' = [info EXCEPT ![r] = None]
  /\ summary' = [summary EXCEPT ![r] = 0]
  /\ caseOut' = [caseOut EXCEPT ![r] = FALSE]
  /\ delPc' = [delPc EXCEPT ![r] = "idle"]
  /\ hist' = [hist EXCEPT ![r].deleted = TRUE]
  /\ UNCHANGED <<ids, pc, stopPc, fsCfg, active, proc,
                 result, fsOut, ev, calls, faults, phase, env>>
  /\ UNCHANGED pureVars
\* ------------------------------------------------ relative scores and stats
\* ConfigService.calculateRelativeScore, ScoreAnalysisService and the merge
\* of ExecutionRepository.findById, applied to one stored run.

Val(x) == CHOOSE v \in x : TRUE
Abs(i) == IF i < 0 THEN -i ELSE i

\* Equality, sum and distance of fractions by cross-multiplication.
FEq(a, b) == a.n * b.d = b.n * a.d
FAdd(a, b) == Frac(a.n * b.d + b.n * a.d, a.d * b.d)
\* Math.abs(a - b) > 0.001
Differs(a, b) == Abs(a.n * b.d - b.n * a.d) * 1000 > a.d * b.d

\* calculateRelativeScore with the objective ignored: always score / best.
CalculateRelativeScoreMaxOnly(score, best, obj) ==
  IF score <= 0 \/ best <= 0 THEN Zero ELSE Frac(score, best)

\* ConfigService.calculateRelativeScore
CalculateRelativeScore(score, best, obj) ==
  IF score <= 0 \/ best <= 0 THEN Zero
  ELSE IF obj = "Min" THEN Frac(best, score)
  ELSE Frac(score, best)

\* The test the three loops share:
\* c.score != null && bestScores[c.seed] !== undefined
Counted(c) == c.score # NullScore /\ bestScores[c.seed] # {}

RelativeOf(c) ==
  CalculateRelativeScore(Val(c.score), Val(bestScores[c.seed]), objective)

\* total and cnt of the loop over the first i cases.
RECURSIVE Total(_, _)
Total(cs, i) ==
  IF i = 0 THEN Zero
  ELSE IF Counted(cs[i]) THEN FAdd(Total(cs, i - 1), RelativeOf(cs[i]))
  ELSE Total(cs, i - 1)

RECURSIVE Cnt(_, _)
Cnt(cs, i) ==
  IF i = 0 THEN 0
  ELSE Cnt(cs, i - 1) + (IF Counted(cs[i]) THEN 1 ELSE 0)

\* cnt ? total / cnt : 0
Average(cs) ==
  IF Cnt(cs, Len(cs)) = 0 THEN Zero
  ELSE Frac(Total(cs, Len(cs)).n, Total(cs, Len(cs)).d * Cnt(cs, Len(cs)))

\* ScoreAnalysisService.calculateExecutionStats: caseCnt comes from the
\* case_count field (0 when missing), the accepted count from wa_seeds, and
\* the relative average is computed only when caseCnt > 0.
CalculateExecutionStats(sm) ==
  LET caseCnt == IF sm.case_count = {} THEN 0 ELSE Val(sm.case_count)
  IN [totalCount |-> caseCnt,
      acceptedCount |-> caseCnt - sm.wa_seeds,
      averageRelativeScore |->
        IF caseCnt > 0 THEN Average(sm.cases) ELSE Zero]

\* ScoreAnalysisService.enrichTestCasesWithRelativeScore: relativeScore is
\* null ({}) or the number calculateRelativeScore returned.
EnrichTestCasesWithRelativeScore(cs) ==
  [i \in 1..Len(cs) |->
     [seed |-> cs[i].seed, score |-> cs[i].score,
      relativeScore |-> IF Counted(cs[i]) THEN {RelativeOf(cs[i])} ELSE {}]]

\* ExecutionRepository.mergeWithSummary: once a summary exists the average of
\* the record is the one of calculateExecutionStats, not the stored one.
MergeWithSummary(stored, sm) == CalculateExecutionStats(sm).averageRelativeScore

StatsCall ==
  /\ statsOut = << >>
  /\ statsOut' = <<CalculateExecutionStats(summaryData)>>
  /\ UNCHANGED <<bestScores, objective, summaryData, storedAvg, casesOut,
                 passes, updated, savedInto>>
  /\ UNCHANGED <<orchVars, auxVars, relVars, logVars>>

EnrichCall ==
  /\ casesOut = << >>
  /\ casesOut' = <<EnrichTestCasesWithRelativeScore(summaryData.cases)>>
  /\ UNCHANGED <<bestScores, objective, summaryData, storedAvg, statsOut,
                 passes, updated, savedInto>>
  /\ UNCHANGED <<orchVars, auxVars, relVars, logVars>>

\* The run whose summary and record the score data above belong to, and the
\* run whose finalizeExecution(COMPLETED) calls the recalculation.
StoredRun == 1
CompletedRun == 2

\* ScoreAnalysisService.recalculateAllRelativeScores, one whole call: exe is
\* the record findAll returned (merged with the summary), newAvg the average
\* over summary.cases; the record is saved, into the directory of exe.id,
\* when they differ by more than 0.001.
RecalculateAllRelativeScores ==
  /\ passes < MaxPasses
  /\ LET exeAvg == MergeWithSummary(storedAvg, summaryData)
         newAvg == Average(summaryData.cases)
     IN IF Differs(newAvg, exeAvg)
          THEN /\ storedAvg' = newAvg
               /\ updated' = 1
               /\ savedInto' = savedInto \cup {StoredRun}
          ELSE /\ storedAvg' = storedAvg
               /\ updated' = 0
               /\ UNCHANGED savedInto
  /\ passes' = passes + 1
  /\ UNCHANGED <<bestScores, objective, summaryData, statsOut, casesOut>>
  /\ UNCHANGED <<orchVars, auxVars, relVars, logVars>>

ScoreInit ==
  /\ OrchInit /\ out = NoDir
  /\ RelIdle /\ LogIdle /\ AuxIdle
  /\ bestScores \in [CaseSeeds -> BestEntries]
  /\ objective \in Objectives
  /\ summaryData \in Summaries
  /\ storedAvg = Zero
  /\ statsOut = << >>
  /\ casesOut = << >>
  /\ passes = 0
  /\ updated = 0
  /\ savedInto = {}

ScoreNext == StatsCall \/ EnrichCall \/ RecalculateAllRelativeScores

ScoreSpec == ScoreInit /\ [][ScoreNext]_vars

RelativeScoreCall ==
  /\ relOut = << >>
  /\ relOut' = <<CalculateRelativeScore(argScore, argBest, argObjective)>>
  /\ UNCHANGED <<argScore, argBest, argObjective, orchVars, auxVars, logVars>>
  /\ UNCHANGED scoreVars

RelInit ==
  /\ OrchInit /\ out = NoDir
  /\ ScoreIdle /\ LogIdle /\ AuxIdle
  /\ argObjective \in Objectives
  /\ argScore \in -1..MaxArg
  /\ argBest \in -1..MaxArg
  /\ relOut = << >>

RelNext == RelativeScoreCall

RelSpec == RelInit /\ [][RelNext]_vars

\* ------------------------------------------------------ child output logs
\* The stdout and stderr 'data' handlers of ProcessManager.executePacher and
\* ExecutionService.logProcessOutput, for one run.  A line is its number in
\* the order the child wrote it, and whether it is blank.

\* The child writes its next line to stdout or to stderr; each stream is a
\* pipe of its own.
ChildWrite ==
  /\ produced < MaxLines
  /\ produced' = produced + 1
  /\ \E blank \in BOOLEAN :
       LET line == [k |-> produced + 1, blank |-> blank]
       IN \/ pipeOut' = Append(pipeOut, line) /\ UNCHANGED pipeErr
          \/ pipeErr' = Append(pipeErr, line) /\ UNCHANGED pipeOut
  /\ UNCHANGED <<logEvents, orchVars, auxVars, scoreVars, relVars>>

\* logProcessOutput: split('\n'), drop the blank lines, emitLog for each line
\* in the order of the chunk.
LogProcessOutput(chunk) == SelectSeq(chunk, LAMBDA l : ~l.blank)

\* child.stdout.on('data'): the chunk read from the pipe goes to onLog.
StdoutData ==
  /\ \E n \in 1..Len(pipeOut) :
       /\ logEvents' = logEvents \o LogProcessOutput(SubSeq(pipeOut, 1, n))
       /\ pipeOut' = SubSeq(pipeOut, n + 1, Len(pipeOut))
  /\ UNCHANGED <<produced, pipeErr, orchVars, auxVars, scoreVars, relVars>>

\* child.stderr.on('data'): the same for stderr.
StderrData ==
  /\ \E n \in 1..Len(pipeErr) :
       /\ logEvents' = logEvents \o LogProcessOutput(SubSeq(pipeErr, 1, n))
       /\ pipeErr' = SubSeq(pipeErr, n + 1, Len(pipeErr))
  /\ UNCHANGED <<produced, pipeOut, orchVars, auxVars, scoreVars, relVars>>

LogInit == OrchInit /\ out = NoDir /\ ScoreIdle /\ RelIdle /\ LogIdle /\ AuxIdle

LogNext == ChildWrite \/ StdoutData \/ StderrData

LogSpec == LogInit /\ [][LogNext]_vars

\* ------------------------------------------- ExecutionRepository, reading
\* The read side of ExecutionRepository for one run directory.  A JSON file
\* is missing, malformed (not parseable), or parseable; a parseable
\* execution_info.json passes TestExecutionSchema ("valid") or not
\* ("invalid"), a parseable summary.json has a cases array or not.

InfoStates == {"missing", "malformed", "invalid", "valid"}
SummaryStates == {"missing", "malformed", "nocases", "cases"}

\* readJsonFile: ENOENT gives null, every other error of readFile or
\* JSON.parse is rethrown.  data is {} for null.
ReadJsonFile(f) ==
  IF f = "missing" THEN [thrown |-> FALSE, data |-> {}]
  ELSE IF f = "malformed" THEN [thrown |-> TRUE, data |-> {}]
  ELSE [thrown |-> FALSE, data |-> {f}]

\* findById on the files themselves: both reads, the record from a valid
\* execution_info.json or synthesized from a summary, null without directory.
FindByIdRead(d, i, sm) ==
  IF ReadJsonFile(i).thrown \/ ReadJsonFile(sm).thrown THEN "throws"
  ELSE IF ~d THEN "null"
  ELSE IF ReadJsonFile(i).data = {"valid"} \/ ReadJsonFile(sm).data # {}
    THEN "record"
  ELSE "null"

\* findTestCasesByExecutionId: [] unless the summary has a cases array.
FindTestCasesByExecutionId(sm) ==
  IF ReadJsonFile(sm).thrown THEN "throws"
  ELSE IF ReadJsonFile(sm).data # {"cases"} THEN "empty"
  ELSE "cases"

\* findTestCaseResult: null unless the summary lists the seed and the output
\* file of the seed exists.
FindTestCaseResult(sm, listed, file) ==
  IF ReadJsonFile(sm).thrown THEN "throws"
  ELSE IF ReadJsonFile(sm).data # {"cases"} THEN "null"
  ELSE IF ~listed THEN "null"
  ELSE IF file THEN "text" ELSE "null"

\* ExecutionService.finalizeExecution up to the end of its first await: the
\* findById is awaited outside every try of finalizeExecution.
FinalizeExecutionRead(d, i, sm) ==
  IF FindByIdRead(d, i, sm) = "throws" THEN "throws" ELSE "continues"

FindByIdCall ==
  /\ repoOut = << >>
  /\ repoOut' = <<[op |-> "findById",
                   outcome |-> FindByIdRead(repoDir, repoInfo, repoSummary)]>>
  /\ UNCHANGED <<repoDir, repoInfo, repoSummary, repoCaseFile, repoSeedListed>>
  /\ UNCHANGED <<orchVars, scoreVars, relVars, logVars, cfgVars, metaVars,
                 recVars>>

FindTestCasesCall ==
  /\ repoOut = << >>
  /\ repoOut' = <<[op |-> "findTestCasesByExecutionId",
                   outcome |-> FindTestCasesByExecutionId(repoSummary)]>>
  /\ UNCHANGED <<repoDir, repoInfo, repoSummary, repoCaseFile, repoSeedListed>>
  /\ UNCHANGED <<orchVars, scoreVars, relVars, logVars, cfgVars, metaVars,
                 recVars>>

FindTestCaseResultCall ==
  /\ repoOut = << >>
  /\ repoOut' = <<[op |-> "findTestCaseResult",
                   outcome |-> FindTestCaseResult(repoSummary, repoSeedListed,
                                                  repoCaseFile)]>>
  /\ UNCHANGED <<repoDir, repoInfo, repoSummary, repoCaseFile, repoSeedListed>>
  /\ UNCHANGED <<orchVars, scoreVars, relVars, logVars, cfgVars, metaVars,
                 recVars>>

FinalizeReadCall ==
  /\ repoOut = << >>
  /\ repoOut' = <<[op |-> "finalizeExecution",
                   outcome |-> FinalizeExecutionRead(repoDir, repoInfo,
                                                     repoSummary)]>>
  /\ UNCHANGED <<repoDir, repoInfo, repoSummary, repoCaseFile, repoSeedListed>>
  /\ UNCHANGED <<orchVars, scoreVars, relVars, logVars, cfgVars, metaVars,
                 recVars>>

\* Every content of one run directory: files exist only inside a directory,
\* a seed is listed only by a summary with cases.
RepoInit ==
  /\ OrchInit /\ out = NoDir
  /\ ScoreIdle /\ RelIdle /\ LogIdle /\ CfgIdle /\ MetaIdle /\ RecIdle
  /\ repoDir \in BOOLEAN
  /\ repoInfo \in InfoStates
  /\ repoSummary \in SummaryStates
  /\ repoCaseFile \in BOOLEAN
  /\ repoSeedListed \in BOOLEAN
  /\ ~repoDir => (repoInfo = "missing" /\ repoSummary = "missing"
                  /\ ~repoCaseFile)
  /\ repoSeedListed => repoSummary = "cases"
  /\ repoOut = << >>

RepoNext ==
  \/ FindByIdCall
  \/ FindTestCasesCall
  \/ FindTestCaseResultCall
  \/ FinalizeReadCall

RepoSpec == RepoInit /\ [][RepoNext]_vars

\* ------------------------------------- ConfigService.updateConfigForTest
\* updateConfigForTest on a config file that has sections and fields besides
\* the seed range.

\* getConfig: the parsed file; {} when readFile or parse throws.
GetConfig(f) ==
  IF f.ok THEN f ELSE ConfigFile(TRUE, Absent, Absent, Absent, Absent)

\* updatedConfig = {...currentConfig, test: {...currentConfig.test,
\* start_seed, end_seed}}, written with stringify.
UpdatedConfig(current, testCaseCount, startSeed) ==
  [current EXCEPT !.start_seed = {startSeed},
                  !.end_seed = {startSeed + testCaseCount}]

\* updateConfigForTest after its backup: getConfig, build, writeFile.
UpdateConfigForTestCall ==
  /\ cfgAfter = << >>
  /\ cfgAfter' = <<UpdatedConfig(GetConfig(cfgFile), cfgArg.testCaseCount,
                                 cfgArg.startSeed)>>
  /\ UNCHANGED <<cfgFile, cfgArg>>
  /\ UNCHANGED <<orchVars, scoreVars, relVars, logVars, repoVars, metaVars,
                 recVars>>

ConfigValues == {Absent} \cup {{v} : v \in 1..MaxField}
ConfigSeeds == {Absent} \cup {{v} : v \in 0..MaxCfgSeed}

CfgInit ==
  /\ OrchInit /\ out = NoDir
  /\ ScoreIdle /\ RelIdle /\ LogIdle /\ RepoIdle /\ MetaIdle /\ RecIdle
  /\ cfgFile \in {ConfigFile(ok, g, t, s, e) :
                    ok \in BOOLEAN, g \in ConfigValues, t \in ConfigValues,
                    s \in ConfigSeeds, e \in ConfigSeeds}
  /\ cfgArg \in [startSeed : 0..MaxCfgSeed, testCaseCount : 1..MaxCount]
  /\ cfgAfter = << >>

CfgNext == UpdateConfigForTestCall

CfgSpec == CfgInit /\ [][CfgNext]_vars

\* ------------------------------------------- execution_info.json round trip
\* ExecutionRepository.save and findById on one run directory, with the
\* metadata snapshot of ProcessManager.executePacher as the other writer.

IsStr(v) == v.type = "string"
IsNum(v) == v.type = "number"
IsInt(v) == IsNum(v) /\ v.num.n % v.num.d = 0

ExecutionStatuses ==
  {Str("IDLE"), Str("RUNNING"), Str("COMPLETED"), Str("FAILED"),
   Str("CANCELLED")}

\* TestExecutionSchema with averageScore required instead of
\* optional().nullable().
SchemaAcceptsStrict(o) ==
  /\ o["status"] \in ExecutionStatuses
  /\ IsStr(o["comment"]) \/ o["comment"] = Null
  /\ IsNum(o["averageScore"])
  /\ \A k \in {"averageRelativeScore", "maxExecutionTime"} :
       IsNum(o[k]) \/ o[k] \in {Undefined, Null}
  /\ \A k \in {"acceptedCount", "totalCount"} :
       IsInt(o[k]) \/ o[k] \in {Undefined, Null}

\* TestExecutionSchema.safeParse(o).success: status is one of the enum,
\* comment a string or null (not optional), the three numbers and the two
\* integers optional and nullable.
SchemaAccepts(o) ==
  /\ o["status"] \in ExecutionStatuses
  /\ IsStr(o["comment"]) \/ o["comment"] = Null
  /\ \A k \in {"averageScore", "averageRelativeScore", "maxExecutionTime"} :
       IsNum(o[k]) \/ o[k] \in {Undefined, Null}
  /\ \A k \in {"acceptedCount", "totalCount"} :
       IsInt(o[k]) \/ o[k] \in {Undefined, Null}

\* JSON.stringify of an object: a key whose value is undefined is left out.
Stringify(o) == [k \in {j \in MetaKeys : o[j] # Undefined} |-> o[k]]

\* JSON.parse of the text, read as a TestExecution: a key that is not in the
\* text reads as undefined.
Parse(text) ==
  [k \in MetaKeys |-> IF k \in DOMAIN text THEN text[k] ELSE Undefined]

\* ProcessManager.executePacher's initialInfo: id, status 'RUNNING',
\* startTime, the comment and the testCaseCount of the request.
InitialInfo(comment, testCaseCount) ==
  [k \in MetaKeys |->
     IF k = "status" THEN Str("RUNNING")
     ELSE IF k = "comment" THEN comment
     ELSE IF k = "totalCount" THEN Num(Frac(testCaseCount, 1))
     ELSE Undefined]

\* The record findById makes up for a summary without valid metadata.
Synthesized ==
  [k \in MetaKeys |->
     IF k = "status" THEN Str("COMPLETED")
     ELSE IF k \in {"averageScore", "averageRelativeScore"} THEN Num(Zero)
     ELSE Null]

\* JavaScript truthiness of a comment: a non-empty string.
Truthy(v) == IsStr(v) /\ v.str # ""

\* calculateExecutionStats(summary) with its averageScore and
\* maxExecutionTime, as values of the record.
SummaryStats(sm) ==
  LET st == CalculateExecutionStats(sm)
  IN [totalCount |-> Num(Frac(st.totalCount, 1)),
      acceptedCount |-> Num(Frac(st.acceptedCount, 1)),
      averageScore |->
        IF st.totalCount > 0
          THEN Num(Frac(IF sm.total_score = {} THEN 0
                        ELSE Val(sm.total_score), st.totalCount))
          ELSE Num(Zero),
      averageRelativeScore |-> Num(st.averageRelativeScore),
      maxExecutionTime |->
        Num(Frac((IF sm.max_execution_time = {} THEN 0
                  ELSE Val(sm.max_execution_time)) * 1000, 1))]

\* A merge that keeps the statistics stored in the metadata.
MergeRecordStored(execution, sm) ==
  [execution EXCEPT !["comment"] =
     IF Truthy(execution["comment"]) THEN execution["comment"]
     ELSE IF Truthy(sm.comment) THEN sm.comment
     ELSE Str("")]

\* ExecutionRepository.mergeWithSummary: {...execution, comment:
\* execution.comment || summary.comment || '', and the five statistics of
\* calculateExecutionStats(summary)}.
MergeRecord(execution, sm) ==
  [k \in MetaKeys |->
     IF k = "status" THEN execution[k]
     ELSE IF k = "comment"
       THEN IF Truthy(execution[k]) THEN execution[k]
            ELSE IF Truthy(sm.comment) THEN sm.comment
            ELSE Str("")
     ELSE SummaryStats(sm)[k]]

\* findById: the parsed execution_info.json when the schema accepts it,
\* merged with summary.json when there is one (a summary alone gives the
\* synthesized record); {} is null.
FindByIdRecord(file, summ) ==
  LET parsed == IF file # << >> /\ SchemaAccepts(Parse(file[1]))
                  THEN {Parse(file[1])} ELSE {}
  IN IF summ = << >> THEN parsed
     ELSE IF parsed = {} THEN {MergeRecord(Synthesized, summ[1])}
     ELSE {MergeRecord(Val(parsed), summ[1])}

\* save(metaArg): an object the schema rejects makes save throw after its
\* mkdir, an accepted one is written as JSON.stringify(validated.data).
MetaSave ==
  /\ metaFile = << >> /\ metaOut = << >>
  /\ IF SchemaAccepts(metaArg)
       THEN /\ metaFile' = <<Stringify(metaArg)>>
            /\ metaWritten' = <<metaArg>>
            /\ UNCHANGED metaOut
       ELSE /\ metaOut' = <<{}>>
            /\ UNCHANGED <<metaFile, metaWritten>>
  /\ UNCHANGED <<metaArg, metaSummary>>
  /\ UNCHANGED <<orchVars, scoreVars, relVars, logVars, repoVars, cfgVars,
                 recVars>>

\* executePacher for a request startExecution has saved the IDLE record of:
\* JSON.stringify(initialInfo) is written without validation.
MetaSnapshot ==
  /\ metaFile = << >> /\ metaOut = << >>
  /\ SchemaAccepts(metaArg) /\ IsInt(metaArg["totalCount"])
  /\ LET initialInfo ==
           InitialInfo(metaArg["comment"],
                       metaArg["totalCount"].num.n \div
                         metaArg["totalCount"].num.d)
     IN /\ metaFile' = <<Stringify(initialInfo)>>
        /\ metaWritten' = <<initialInfo>>
  /\ UNCHANGED <<metaArg, metaSummary, metaOut>>
  /\ UNCHANGED <<orchVars, scoreVars, relVars, logVars, repoVars, cfgVars,
                 recVars>>

\* findById after the write.
MetaFind ==
  /\ metaFile # << >> /\ metaOut = << >>
  /\ metaOut' = <<FindByIdRecord(metaFile, metaSummary)>>
  /\ UNCHANGED <<metaArg, metaFile, metaSummary, metaWritten>>
  /\ UNCHANGED <<orchVars, scoreVars, relVars, logVars, repoVars, cfgVars,
                 recVars>>

\* Objects handed to save, with values the schema rejects among them: a
\* status outside the enum, an undefined comment, a fractional count.
MetaObjects ==
  {[k \in MetaKeys |->
      IF k = "status" THEN st
      ELSE IF k = "comment" THEN cm
      ELSE IF k = "averageScore" THEN av
      ELSE IF k = "averageRelativeScore" THEN ar
      ELSE IF k = "acceptedCount" THEN ac
      ELSE IF k = "totalCount" THEN Num(Frac(2, 1))
      ELSE Null] :
     st \in {Str("IDLE"), Str("COMPLETED"), Str("DONE")},
     cm \in {Undefined, Null, Str(""), Str("a")},
     av \in {Undefined, Null, Num(Frac(1, 2))},
     ar \in {Undefined, Num(Frac(1, 1))},
     ac \in {Null, Num(Frac(1, 1)), Num(Frac(1, 2))}}

\* summary.json files: the score fields of Summaries for lists of at most
\* one case, with the comment, the total score and the maximal time.
MetaSummaries ==
  {[case_count |-> cc, wa_seeds |-> wa, cases |-> cs, comment |-> cm,
    total_score |-> ts, max_execution_time |-> mt] :
     cc \in {{}, {0}, {2}}, wa \in 0..1,
     cs \in {<< >>, <<[seed |-> 1, score |-> {1}]>>},
     cm \in {Undefined, Str(""), Str("s")},
     ts \in {{}, {3}}, mt \in {{}, {1}}}

MetaInit ==
  /\ OrchInit /\ out = NoDir
  /\ RelIdle /\ LogIdle /\ RepoIdle /\ CfgIdle /\ RecIdle
  /\ bestScores \in {[s \in CaseSeeds |-> {}], [s \in CaseSeeds |-> {2}]}
  /\ objective = "Max"
  /\ summaryData = [case_count |-> {}, wa_seeds |-> 0, cases |-> << >>]
  /\ storedAvg = Zero
  /\ statsOut = << >>
  /\ casesOut = << >>
  /\ passes = 0
  /\ updated = 0
  /\ savedInto = {}
  /\ metaArg \in MetaObjects
  /\ metaSummary \in {<< >>} \cup {<<sm>> : sm \in MetaSummaries}
  /\ metaFile = << >>
  /\ metaWritten = << >>
  /\ metaOut = << >>

MetaNext == MetaSave \/ MetaSnapshot \/ MetaFind

MetaSpec == MetaInit /\ [][MetaNext]_vars

\* ------------------------------------- recalculation against status updates
\* recalculateAllRelativeScores step by step, for the stored run: the record
\* comes from findAll, the save follows later awaits (readSummary), and the
\* run's own chain may persist a status in between.

\* findAll: the record of the stored run as findById returns it, with its
\* status and with the average of the merge.
RecalcFindAll ==
  /\ recExe = << >>
  /\ passes < MaxPasses
  /\ recExe' = <<[status |-> recStatus,
                  averageRelativeScore |->
                    MergeWithSummary(storedAvg, summaryData)]>>
  /\ UNCHANGED recStatus
  /\ UNCHANGED <<orchVars, scoreVars, relVars, logVars, repoVars, cfgVars,
                 metaVars>>

\* The loop body for exe: newAvg from summary.cases; when it differs from
\* exe.averageRelativeScore by more than 0.001 the field is set and
\* save(exe) writes the whole record, its status included.
RecalcSave ==
  /\ recExe # << >>
  /\ LET newAvg == Average(summaryData.cases)
     IN IF Differs(newAvg, recExe[1].averageRelativeScore)
          THEN /\ storedAvg' = newAvg
               /\ recStatus' = recExe[1].status
               /\ updated' = 1
               /\ savedInto' = savedInto \cup {StoredRun}
          ELSE /\ updated' = 0
               /\ UNCHANGED <<storedAvg, recStatus, savedInto>>
  /\ recExe' = << >>
  /\ passes' = passes + 1
  /\ UNCHANGED <<bestScores, objective, summaryData, statsOut, casesOut>>
  /\ UNCHANGED <<orchVars, relVars, logVars, repoVars, cfgVars, metaVars>>

\* The stored run's own chain persists a status: RUNNING becomes COMPLETED
\* or FAILED by the save of finalizeExecution, CANCELLED by the
\* updateStatus of stopExecution.
StatusTransition ==
  /\ recStatus = "RUNNING"
  /\ \E st \in Terminal : recStatus' = st
  /\ UNCHANGED recExe
  /\ UNCHANGED <<orchVars, scoreVars, relVars, logVars, repoVars, cfgVars,
                 metaVars>>

\* The stored run has a summary of up to MaxCases cases, with or without
\* its case_count field.
RecInit ==
  /\ OrchInit /\ out = NoDir
  /\ RelIdle /\ LogIdle /\ RepoIdle /\ CfgIdle /\ MetaIdle
  /\ bestScores \in [CaseSeeds -> {{}, {1}, {2}}]
  /\ objective \in Objectives
  /\ summaryData \in {sm \in Summaries :
                        sm.wa_seeds = 0
                        /\ \A i \in 1..Len(sm.cases) :
                             sm.cases[i].seed = i /\ sm.cases[i].score # {-1}}
  /\ storedAvg = Zero
  /\ statsOut = << >>
  /\ casesOut = << >>
  /\ passes = 0
  /\ updated = 0
  /\ savedInto = {}
  /\ recStatus \in {"RUNNING", "COMPLETED"}
  /\ recExe = << >>

RecNext == RecalcFindAll \/ RecalcSave \/ StatusTransition

RecSpec == RecInit /\ [][RecNext]_vars

\* ------------------------------------------------------------ specification

Next ==
  \/ \E rq \in Requests : StartExecution(rq)
  \/ \E r \in Runs : BackupConfig(r)
  \/ \E r \in Runs : UpdateConfigForTest(r)
  \/ \E r \in Runs : SaveInitial(r)
  \/ \E r \in Runs : RunningFind(r)
  \/ \E r \in Runs : RunningSave(r)
  \/ \E r \in Runs : RunningEmit(r)
  \/ \E r \in Runs : ExecMkdir(r)
  \/ \E r \in Runs : ExecWriteInfo(r)
  \/ \E r \in Runs : BackupOutAndSpawn(r)
  \/ \E r \in Runs : ProcWrite(r)
  \/ \E r \in Runs : ProcExit(r)
  \/ \E r \in Runs : CloseHandler(r)
  \/ \E r \in Runs : ErrorHandler(r)
  \/ \E r \in Runs : SaveSummary(r)
  \/ \E r \in Runs : SaveCaseOutputs(r)
  \/ \E r \in Runs : RestoreOut(r)
  \/ \E r \in Runs : RestoreConfigAfterRun(r)
  \/ \E r \in Runs : FinalizeFind(r)
  \/ \E r \in Runs : FinalizeSave(r)
  \/ \E r \in Runs : Recalculate(r)
  \/ \E r \in Runs : FinalizeEmit(r)
  \/ \E r \in Runs : FallbackFind(r)
  \/ \E r \in Runs : FallbackSave(r)
  \/ \E r \in Runs : FallbackEmit(r)
  \/ \E r \in Runs : StopExecution(r)
  \/ \E r \in Runs : StopRestoreConfig(r)
  \/ \E r \in Runs : StopFind(r)
  \/ \E r \in Runs : StopSave(r)
  \/ \E r \in Runs : StopEmit(r)
  \/ \E r \in Runs : DeleteExecution(r)
  \/ \E r \in Runs : DeleteDirectory(r)
  \/ StorageBreaks
  \/ SubscriberBreaks

Spec == Init /\ [][Next]_vars

\* --------------------------------------------------------------- fairness
\* One session with a single start.  Everything run r has pending (the
\* continuation of an await, an event handler, the exit of its child
\* process) is a step of Pending(r); the event loop runs what is pending,
\* and a child process that was spawned ends.

Pending(r) ==
  \/ BackupConfig(r) \/ UpdateConfigForTest(r) \/ SaveInitial(r)
  \/ RunningFind(r) \/ RunningSave(r) \/ RunningEmit(r)
  \/ ExecMkdir(r) \/ ExecWriteInfo(r) \/ BackupOutAndSpawn(r)
  \/ ProcWrite(r) \/ ProcExit(r) \/ CloseHandler(r) \/ ErrorHandler(r)
  \/ SaveSummary(r) \/ SaveCaseOutputs(r) \/ RestoreOut(r)
  \/ RestoreConfigAfterRun(r)
  \/ FinalizeFind(r) \/ FinalizeSave(r) \/ Recalculate(r) \/ FinalizeEmit(r)
  \/ FallbackFind(r) \/ FallbackSave(r) \/ FallbackEmit(r)
  \/ StopRestoreConfig(r) \/ StopFind(r) \/ StopSave(r) \/ StopEmit(r)
  \/ DeleteDirectory(r)

FairNext ==
  \/ \E rq \in Requests : nextId = 1 /\ StartExecution(rq)
  \/ \E r \in Runs : Pending(r)
  \/ \E r \in Runs : StopExecution(r)
  \/ \E r \in Runs : DeleteExecution(r)
  \/ StorageBreaks
  \/ SubscriberBreaks

FairSpec == Init /\ [][FairNext]_vars /\ \A r \in Runs : WF_vars(Pending(r))


\* ------------------------------------------------------------------ claims

\* C1: for a run whose config backup succeeded, the config content at the
\* moment the run's persisted status becomes terminal equals the content the
\* file had immediately before start was called.
C1_ConfigRoundTrip ==
  [][\A r \in Runs :
       (info[r] \notin Terminal /\ info'[r] \in Terminal /\ hist[r].bakOk)
         => cfg' = hist[r].cfgBefore]_vars

\* C2: per run id the persisted status and the emitted status events follow
\* IDLE -> RUNNING -> terminal: a terminal status is never followed by a
\* different status, and RUNNING is never followed by IDLE.
C2_StatusMonotonic ==
  [][\A r \in Runs :
       /\ (info[r] \in Terminal /\ info'[r] # None) => info'[r] = info[r]
       /\ (info[r] = "RUNNING" /\ info'[r] # None) => info'[r] # "IDLE"
       /\ ev[r].status \in Terminal => ev'[r].status = ev[r].status]_vars

\* C3: brackets of different runs do not interleave, so that the backup file
\* never captures a config that a run has already mutated: whenever the
\* backup exists it holds the config as it was before every run.
C3_ConfigBracketExclusive == bak \in {NoFile, PristineConfig}

\* Everything started for run r has run to its end.
Quiescent(r) == pc[r] = "done" /\ stopPc[r] = "idle" /\ delPc[r] = "idle"

\* C4: once a stop found a live subprocess, the persisted status the run ends
\* with is CANCELLED, however stop and the exit handling interleave.
C4_StopEndsCancelled ==
  \A r \in Runs :
    (hist[r].stopLive /\ Quiescent(r) /\ info[r] # None)
      => info[r] = "CANCELLED"

\* C5: after delete(id) has returned, the run directory does not exist and
\* findById(id) reports not found, whatever phase the run was in.
C5_DeleteIsFinal ==
  \A r \in Runs : hist[r].deleted => (~dir[r] /\ FindById(r) = None)

\* C6: a stop(id) that finds no tracked subprocess changes neither the stored
\* records, nor the config file and its backup, nor the active-process table,
\* emits no status event, and leaves no continuation of stop pending.
C6_StopWithoutProcessIsNoop ==
  [][\A r \in Runs :
       (stops'[r] # stops[r] /\ r \notin active)
         => UNCHANGED <<dir, info, summary, caseOut, cfg, bak, active, proc, ev,
                        stopPc>>]_vars

\* C6 witness: a stop was called for a run that has a stored record and no
\* tracked subprocess was ever found for it.
C6_Witness ==
  \E r \in Runs : stops[r] > 0 /\ ~hist[r].stopLive /\ info[r] = "RUNNING"

\* C7: a COMPLETED status event is emitted only after the score
\* recalculation triggered by that completion has finished.
C7_CompletedAfterReconcile ==
  \A r \in Runs : ev[r].status = "COMPLETED" => ev[r].reconciled

\* The seed window of run r is in the config by r's own mutation.
WindowApplied(r) ==
  hist[r].bracket = "open" /\ pc[r] \notin {"backup", "mutate"}

\* C8: the config shows the run's seed window only while the run's status is
\* RUNNING, and shows the pre-run values when the status becomes COMPLETED.
C8_WindowOnlyWhileRunning ==
  [][\A r \in Runs :
       /\ WindowApplied(r)' => info'[r] = "RUNNING"
       /\ (info[r] # "COMPLETED" /\ info'[r] = "COMPLETED")
            => cfg' = hist[r].cfgBefore]_vars

\* C9: when execute returns, tools/out has the content (or absence) it had
\* immediately before execute was called.
C9_ScratchRestored ==
  [][\A r \in Runs :
       (~hist[r].executed /\ hist'[r].executed) => out' = hist[r].outBefore]_vars

\* Run r is between its backupOutDirectory and its restoreOutDirectory.
InScratchBracket(r) == hist[r].outBracket = "open"

\* C10: while one invocation is inside its tools/out backup -> restore
\* bracket, the backupOutDirectory of another invocation neither renames nor
\* deletes tools/out or tools/out_bak.
C10_ScratchBracketExclusive ==
  [][\A r \in Runs :
       (pc[r] = "backupOut" /\ pc'[r] # "backupOut"
          /\ \E q \in Runs \ {r} : InScratchBracket(q))
         => UNCHANGED <<out, outBak>>]_vars

\* C11: the second of two successive recalculateAllRelativeScores calls over
\* unchanged summaries and best scores saves no record.
C11_RecomputeIdempotent == passes = 2 => updated = 0

Qualifies(c) ==
  c.score # NullScore /\ Val(c.score) > 0 /\ bestScores[c.seed] # {}

\* C13: a case's relative score is non-null exactly when its score is
\* positive and the best-score table has an entry for its seed; a null or
\* non-positive score, or a missing best score, gives null, not zero.
C13_CaseRelativeDefined ==
  casesOut # << >> =>
    \A i \in 1..Len(casesOut[1]) :
      (casesOut[1][i].relativeScore # {}) <=> Qualifies(summaryData.cases[i])

\* Sum and number of the relative scores of the qualifying cases.
RECURSIVE QualTotal(_, _)
QualTotal(cs, i) ==
  IF i = 0 THEN Zero
  ELSE IF Qualifies(cs[i]) THEN FAdd(QualTotal(cs, i - 1), RelativeOf(cs[i]))
  ELSE QualTotal(cs, i - 1)

RECURSIVE QualCnt(_, _)
QualCnt(cs, i) ==
  IF i = 0 THEN 0
  ELSE QualCnt(cs, i - 1) + (IF Qualifies(cs[i]) THEN 1 ELSE 0)

QualMean(cs) ==
  IF QualCnt(cs, Len(cs)) = 0 THEN Zero
  ELSE Frac(QualTotal(cs, Len(cs)).n,
            QualTotal(cs, Len(cs)).d * QualCnt(cs, Len(cs)))

\* C14: the average relative score of calculateExecutionStats is the mean of
\* the relative scores of exactly the cases with a positive score and a best
\* score for their seed, and 0 when no case qualifies.
C14_AverageOverQualifying ==
  statsOut # << >> =>
    FEq(statsOut[1].averageRelativeScore, QualMean(summaryData.cases))

\* C15: the accepted count of calculateExecutionStats is the total count
\* minus the number of failed cases and lies between 0 and the total count,
\* also for a summary whose run-level fields are missing.
C15_AcceptedWithinTotal ==
  statsOut # << >> =>
    /\ statsOut[1].acceptedCount
         = statsOut[1].totalCount - summaryData.wa_seeds
    /\ 0 <= statsOut[1].acceptedCount
    /\ statsOut[1].acceptedCount <= statsOut[1].totalCount

\* C16: with subscribers that never throw, an exception raised in a run's
\* protected sequence leaves no rejected promise without a handler, and once
\* the run's chain has ended (no stop or delete having been called) the
\* config bracket is closed and the persisted status is FAILED.
C16_ExceptionsCaught ==
  \A r \in Runs :
    ~subThrows =>
      /\ ~hist[r].escaped
      /\ (hist[r].raised /\ pc[r] = "done" /\ stops[r] = 0 /\ deletes = 0)
           => (hist[r].bracket = "closed" /\ info[r] = "FAILED")

\* C17: with storage that never fails and subscribers that never throw, a
\* status event carries a record whose status is the event's status, and
\* once everything started for a run has ended, every status that was saved
\* for the run has been followed by its status event.
C17_TransitionsReported ==
  \A r \in Runs :
    (~ioBroken /\ ~subThrows) =>
      /\ ev[r].status # None => ev[r].record = ev[r].status
      /\ Quiescent(r) => hist[r].unreported = {}

\* C19: with storage that never fails and no stop or delete called, a run
\* for which a subscriber threw during an emit still ends as it would have:
\* startExecution does not reject, no rejection goes unhandled, and at the
\* end of its chain the config bracket is closed and the persisted status is
\* COMPLETED or FAILED.
C19_SubscriberIsolated ==
  \A r \in Runs :
    (hist[r].emitFailed /\ ~ioBroken /\ stops[r] = 0 /\ deletes = 0) =>
      /\ pc[r] # "rejected"
      /\ ~hist[r].escaped
      /\ pc[r] = "done"
           => (hist[r].bracket = "closed" /\ info[r] \in {"COMPLETED", "FAILED"})

\* C18: the log events that carry the child's output are emitted in the
\* order in which the child wrote the lines.
C18_LogsInOutputOrder ==
  \A i, j \in 1..Len(logEvents) : i < j => logEvents[i].k < logEvents[j].k

\* C20: findById reports not found exactly when the run directory does not
\* exist, a COMPLETED record when valid metadata is absent but a summary
\* exists, and for a directory holding neither a result that differs from
\* not found.
C20_FindByIdOutcomes ==
  \A r \in Runs :
    /\ (FindById(r) = None) <=> ~dir[r]
    /\ (dir[r] /\ info[r] = None /\ summary[r] # 0) => FindById(r) = "COMPLETED"

\* What the repository call `op` gives on a directory whose summary.json is
\* in state sm.
RepoOutcome(op, sm) ==
  CASE op = "findById" -> FindByIdRead(repoDir, repoInfo, sm)
    [] op = "findTestCasesByExecutionId" -> FindTestCasesByExecutionId(sm)
    [] op = "findTestCaseResult" -> FindTestCaseResult(sm, FALSE, repoCaseFile)
    [] op = "finalizeExecution" -> FinalizeExecutionRead(repoDir, repoInfo, sm)

\* C21: on a run directory whose summary.json is malformed (and whose
\* execution_info.json is not), findById, findTestCasesByExecutionId,
\* findTestCaseResult and the read of finalizeExecution raise no error and
\* give what they give when the summary is missing.
C21_MalformedSummaryIsAbsent ==
  (repoOut # << >> /\ repoSummary = "malformed" /\ repoInfo # "malformed") =>
    /\ repoOut[1].outcome # "throws"
    /\ repoOut[1].outcome = RepoOutcome(repoOut[1].op, "missing")

\* C22: a stopExecution or deleteExecution call made after the run's child
\* process has exited by itself removes nothing from activeProcesses and
\* reports no kill.
C22_NoKillAfterExit ==
  [][\A r \in Runs :
       (/\ proc[r] \in {"exit0", "exitN"}
        /\ \/ stops'[r] # stops[r]
           \/ (delPc[r] = "idle" /\ delPc'[r] = "rm"))
         => (active' = active /\ hist'[r].stopLive = hist[r].stopLive)]_vars

\* C23: the recalculation that the completion of one run triggers saves into
\* no run directory other than that run's own.
C23_NoCrossRunWrites == savedInto \subseteq {CompletedRun}

\* C24: the IDLE record of a run is persisted before the run's config
\* backup is taken: whenever the config bracket of run r has been opened,
\* the directory of r exists unless a delete of r has been called.
C24_IdlePersistedFirst ==
  \A r \in Runs :
    hist[r].bracket # "none"
      => (dir[r] \/ hist[r].deleted \/ delPc[r] = "rm")

\* C25: with storage that never fails and no delete called, a stopExecution
\* that found a live process and has returned has killed the process,
\* restored the config, saved CANCELLED and emitted the CANCELLED status
\* event, in this order.
C25_StopSequence ==
  \A r \in Runs :
    (hist[r].stopLive /\ stopPc[r] = "idle" /\ ~ioBroken /\ deletes = 0)
      => hist[r].stopLog = <<"kill", "restore", "save", "emit">>

\* C26: whenever the persisted status of a run is FAILED, a config restore
\* has been attempted for the run and no recalculation of the relative
\* scores has been performed for it; and once everything started for the run
\* has ended (no delete having been called), the FAILED status has been
\* followed by its status event.
C26_FailedPath ==
  \A r \in Runs :
    info[r] = "FAILED" =>
      /\ hist[r].bracket = "closed"
      /\ ~hist[r].reconciled
      /\ (Quiescent(r) /\ deletes = 0) => "FAILED" \notin hist[r].unreported

\* C27: a killProcess(r) call, made by stopExecution or deleteExecution,
\* that finds r in activeProcesses signals the child and removes the entry,
\* and stopExecution sees it return true; one that does not find r changes
\* neither the table nor any process, and stopExecution, seeing it return
\* false, does nothing more.
C27_KillReportsTableEntry ==
  [][\A r \in Runs :
       /\ (stops'[r] # stops[r] \/ (delPc[r] = "idle" /\ delPc'[r] = "rm")) =>
            IF r \in active
              THEN /\ active' = active \ {r}
                   /\ proc[r] \in {"running", "wrote"} => proc'[r] = "killed"
              ELSE active' = active /\ proc' = proc
       /\ stops'[r] # stops[r] =>
            IF r \in active
              THEN hist'[r].stopLive
              ELSE /\ hist'[r].stopLive = hist[r].stopLive
                   /\ stopPc' = stopPc]_vars

\* A run that one kill found in the table and another kill did not.
C27_Witness ==
  \E r \in Runs :
    hist[r].stopLive /\ stops[r] = 2 /\ proc[r] = "killed" /\ r \notin active

\* C28: the directory of a run holds a summary.json or case outputs only if
\* the 'close' handler of the run's child process got exit code 0; a run
\* whose child exited non-zero, was killed, or never started has neither.
C28_ArtifactsOnlyOnZeroExit ==
  \A r \in Runs :
    (summary[r] # 0 \/ caseOut[r]) => hist[r].code = "zero"

\* A run whose child exited with 0 and whose directory got both artifacts,
\* next to a run whose child did not exit with 0.
C28_Witness ==
  \E r, q \in Runs :
    /\ summary[r] # 0 /\ caseOut[r] /\ hist[r].code = "zero"
    /\ hist[q].code = "other" /\ pc[q] = "done"

\* C29: when a copy of saveTestResults failed for a run, the result that
\* ProcessManager.executePacher resolves with for the run is a failure.
C29_CopyFailureReported ==
  \A r \in Runs :
    (hist[r].copyFailed /\ hist[r].executed) => result[r] = "fail"

\* C30: after updateConfigForTest(testCaseCount, startSeed) the config file
\* has start_seed = startSeed and end_seed = startSeed + testCaseCount, and
\* its other sections and the other fields of its test section are what
\* they were before the call, whatever the file held.
C30_OnlySeedRangeChanges ==
  cfgAfter # << >> =>
    /\ cfgAfter[1].start_seed = {cfgArg.startSeed}
    /\ cfgAfter[1].end_seed = {cfgArg.startSeed + cfgArg.testCaseCount}
    /\ cfgAfter[1].general = cfgFile.general
    /\ cfgAfter[1].threads = cfgFile.threads

\* A config hazard hit run r: its backup or its rewrite of the config
\* failed (a failed backup with no older backup makes restoreConfig fail).
ConfigHazard(r) ==
  hist[r].bracket # "none" /\ (~hist[r].bakOk \/ hist[r].mutFailed)

C32_MissingRunSkipped ==
  [][\A r \in Runs :
       ~dir[r] =>
         /\ (pc[r] = "runFind" /\ pc'[r] # pc[r])
              => (pc'[r] = "runEmit" /\ fsRun' = fsRun)
         /\ (pc[r] = "fbFind" /\ pc'[r] # pc[r])
              => (pc'[r] = "fbEmit" /\ fsRun' = fsRun)
         /\ (stopPc[r] = "find" /\ stopPc'[r] # stopPc[r])
              => (stopPc'[r] = "emit" /\ fsRun' = fsRun)]_vars

\* A run deleted before its RUNNING update: the update was skipped (nothing
\* was saved for it) and the directory is still absent.
C32_Witness ==
  \E r \in Runs :
    /\ pc[r] = "runEmit" /\ ~dir[r] /\ hist[r].deleted
    /\ "RUNNING" \notin hist[r].unreported

C34_MergePrecedence ==
  (metaOut # << >> /\ metaWritten # << >> /\ metaSummary # << >>) =>
    \A rec \in metaOut[1] :
      /\ rec["comment"] =
           IF Truthy(metaWritten[1]["comment"]) THEN metaWritten[1]["comment"]
           ELSE IF Truthy(metaSummary[1].comment) THEN metaSummary[1].comment
           ELSE Str("")
      /\ \A k \in {"totalCount", "acceptedCount", "averageScore",
                   "averageRelativeScore", "maxExecutionTime"} :
           rec[k] = SummaryStats(metaSummary[1])[k]
      /\ rec["status"] = metaWritten[1]["status"]

\* Metadata and summary both carry a comment and disagree on the average
\* score and the total count; findById has returned the merged record.
C34_Witness ==
  /\ metaOut # << >> /\ metaWritten # << >> /\ metaSummary # << >>
  /\ metaOut[1] # {}
  /\ metaWritten[1]["comment"] = Str("a")
  /\ metaSummary[1].comment = Str("s")
  /\ metaWritten[1]["averageScore"] = Num(Frac(1, 2))
  /\ metaSummary[1].case_count = {2} /\ metaSummary[1].total_score = {3}
  /\ metaSummary[1].cases # << >> /\ bestScores[1] # {}

\* C35: every run whose process is in the activeProcesses table has a
\* persisted record, and the status of that record is RUNNING.
C35_ActiveIsRunning ==
  \A r \in active : dir[r] /\ info[r] = "RUNNING"

\* The child process of run r has ended ('close' or 'error' was handled) or
\* spawn threw.
Ended(r) ==
  proc[r] = "closed" \/ (hist[r].outBracket # "none" /\ proc[r] = "none")

\* C36: under fair scheduling, a run whose child process has ended or could
\* not be spawned is, from some point on and for ever, either deleted or
\* stored with a terminal status and out of the activeProcesses table.
C36_EventuallyTerminal ==
  \A r \in Runs :
    [](Ended(r) => <>[](hist[r].deleted
                        \/ (info[r] \in Terminal /\ r \notin active)))

\* C37: the save of recalculateAllRelativeScores leaves the persisted status
\* of the run as it is, whatever was written since findAll read the record.
C37_RecalcKeepsStatus ==
  [][(recExe # << >> /\ recExe' = << >>) => recStatus' = recStatus]_vars

\* C38: while the process of a run is in the activeProcesses table, the
\* seed range in the config is the window of that run's request (for a run
\* whose rewrite of the config succeeded).
C38_WindowWhileLive ==
  \A r \in active : ~hist[r].mutFailed => cfg = TestWindow(req[r])

\* C39: when startExecution rejects because saving the IDLE record threw,
\* after its updateConfigForTest, the config bracket of the run is closed
\* (restoreConfig was called for it) and no process was spawned.
C39_FailedStartRestores ==
  \A r \in Runs :
    (pc[r] = "rejected" /\ hist[r].bracket # "none" /\ ~hist[r].emitFailed)
      => (hist[r].bracket = "closed" /\ proc[r] = "none")

\* C40: the summary.json in the directory of a run was produced by the
\* child process of that run.
C40_OwnSummary ==
  \A r \in Runs : summary[r] \in {0, r}

====
